---- MODULE Spec2Model ----
(***************************************************************************)
(* minagent: the decide -> call tool -> decide -> ... -> answer loop of    *)
(* Agent.run (agent.py), its three nodes (nodes.py), their wiring          *)
(* (flow.py), the global logger (logger.py) and call_llm (utils.py).       *)
(*                                                                         *)
(* Python strings are sequences of one-character strings, so that          *)
(* formatting, slicing and "contains" are computed, not assumed.  A Python *)
(* value is a record [t |-> type name, v |-> what str() gives for it].     *)
(***************************************************************************)
EXTENDS Integers, Sequences, FiniteSets

\* ------------------------------------------------------------------ bounds
ConcRuns     == 3    \* run() calls of the specification of concurrent runs
PromptRuns   == 1    \* run() calls of the specification of long runs
PromptCalls  == 6    \* CALLING_TOOL steps of the specification of long runs
MaxRuns      == 2    \* run() calls started in one behaviour of Spec
MaxToolCalls == 2    \* CALLING_TOOL steps in one behaviour of Spec
HistRuns     == 11   \* run() calls started in one behaviour of SpecHist

\* --------------------------------------------------------------- constants
HistoryWindow == 20  \* agent.py: self.conversation_history[-20:]
RecentCalls   == 5   \* nodes.py: inputs['tool_calls'][-5:]
ResultCut     == 200 \* nodes.py: call['result'][:200]

\* ------------------------------------------------------------ string texts
L_ErrorTool    == <<"E", "r", "r", "o", "r", ":", " ", "T", "o", "o", "l", " ", "'">>
L_NotFound     == <<"'", " ", "n", "o", "t", " ", "f", "o", "u", "n", "d">>
L_ErrorCalling == <<"E", "r", "r", "o", "r", " ", "c", "a", "l", "l", "i", "n", "g", " ">>
L_ColonSp      == <<":", " ">>
L_Newline      == <<"\n">>
L_user         == <<"u", "s", "e", "r">>
L_assistant    == <<"a", "s", "s", "i", "s", "t", "a", "n", "t">>
L_NoPrev       == <<"N", "o", " ", "p", "r", "e", "v", "i", "o", "u", "s", " ",
                    "c", "o", "n", "v", "e", "r", "s", "a", "t", "i", "o", "n">>
L_Unable       == <<"U", "n", "a", "b", "l", "e", " ", "t", "o", " ", "g", "e", "n",
                    "e", "r", "a", "t", "e", " ", "r", "e", "s", "p", "o", "n", "s", "e">>
L_None         == <<"N", "o", "n", "e">>
L_RecentCalls  == <<"\n", "R", "e", "c", "e", "n", "t", " ", "T", "o", "o", "l", " ",
                    "C", "a", "l", "l", "s", ":", "\n">>
L_Dash         == <<"-", " ">>
L_Ellipsis     == <<".", ".", ".">>
L_tool         == <<"t", "o", "o", "l">>
L_answer       == <<"a", "n", "s", "w", "e", "r">>

\* s[:n] of Python
Take(s, n) == SubSeq(s, 1, IF n < Len(s) THEN n ELSE Len(s))

\* s[-n:] of Python, n > 0
LastN(s, n) == SubSeq(s, (IF Len(s) > n THEN Len(s) - n ELSE 0) + 1, Len(s))

\* sub in s, for strings
Contains(s, sub) ==
    \E i \in 0..(Len(s) - Len(sub)) : SubSeq(s, i + 1, i + Len(sub)) = sub

\* str.upper(), on the letters the program's role names are made of
UpperChar(c) ==
    CASE c = "a" -> "A" [] c = "e" -> "E" [] c = "i" -> "I" [] c = "n" -> "N"
      [] c = "r" -> "R" [] c = "s" -> "S" [] c = "t" -> "T" [] c = "u" -> "U"
      [] OTHER -> c

Upper(s) == [i \in 1..Len(s) |-> UpperChar(s[i])]

\* sep.join(parts)
RECURSIVE Join(_, _)
Join(parts, sep) ==
    IF Len(parts) = 0 THEN <<>>
    ELSE IF Len(parts) = 1 THEN parts[1]
    ELSE parts[1] \o sep \o Join(Tail(parts), sep)

\* ------------------------------------------------------------ Python values
PyStr(s)  == [t |-> "str", v |-> s]
PyNone    == [t |-> "NoneType", v |-> L_None]
PyInt(s)  == [t |-> "int", v |-> s]
PyDict(s) == [t |-> "dict", v |-> s]

\* str(x), the text an f-string puts for {x}
Str(x) == x.v

\* dict lookups: d[k] exists, d.get(k, default), d[k] = v
Has(d, k) == k \in DOMAIN d
Get(d, k, default) == IF k \in DOMAIN d THEN d[k] ELSE default
Put(d, k, val) == [x \in DOMAIN d \cup {k} |-> IF x = k THEN val ELSE d[x]]

EmptyDict == [x \in {} |-> PyNone]

\* ------------------------------------------------- the caller's tools (inputs)
\* Three callables a caller may pass to Agent(...): add(a, b), a second
\* function that is also named add but takes one parameter, add(x), and
\* boom(), whose body raises Exception("kaput").
N_add   == <<"a", "d", "d">>
N_boom  == <<"b", "o", "o", "m">>
N_ghost == <<"g", "h", "o", "s", "t">>   \* a name no tool has

ToolFuncs == {"add1", "add2", "boom"}

\* tool.__name__
ToolName(f) == IF f = "boom" THEN N_boom ELSE N_add

\* values a decision's tool_args can hold
ArgsEmpty  == PyDict(<<"{", "}">>)                       \* {}
ArgsFit    == PyDict(<<"{", "a", ",", "b", "}">>)        \* {a: 2, b: 3}
ArgsDate   == PyDict(<<"{", "x", ":", "d", "}">>)        \* {x: 2024-01-01}, a date
ArgsScalar == PyInt(<<"7">>)                             \* 7, not a mapping

\* str(e) of the exceptions met: Python's texts, shortened
M_TypeError == <<"b", "a", "d", " ", "c", "a", "l", "l">>
M_Kaput     == <<"k", "a", "p", "u", "t">>
M_Json      == <<"n", "o", "t", " ", "J", "S", "O", "N">>

Returned(val) == [ok |-> TRUE, val |-> val]
Raised(msg)   == [ok |-> FALSE, val |-> PyStr(msg)]

\* tool_func(**tool_args): Python binds the keywords, then runs the body
CallKeywords(f, args) ==
    CASE f = "add1" /\ args = ArgsFit   -> Returned(PyInt(<<"5">>))
      [] f = "add2" /\ args = ArgsDate  -> Returned(PyStr(<<"d">>))
      [] f = "boom" /\ args = ArgsEmpty -> Raised(M_Kaput)
      [] OTHER                          -> Raised(M_TypeError)

\* tool_func(tool_args): one positional argument
CallPositional(f, arg) ==
    IF f = "add2" THEN Returned(arg) ELSE Raised(M_TypeError)

\* ------------------------------------------------------------------- logger
\* set_logging(enabled, verbose): _logger = Logger(enabled, verbose)
SetLogging(enabled, verbose) == [enabled |-> enabled, verbose |-> verbose]

\* json.dumps(value) works
JsonSerializable(value) == value # ArgsDate

\* bool(value)
Truthy(value) ==
    CASE value.t = "NoneType" -> FALSE
      [] value.t = "str"      -> value.v # <<>>
      [] value.t = "dict"     -> value # ArgsEmpty
      [] OTHER                -> TRUE

\* Logger._print_item: "ok", or the exception json.dumps raises
PrintItem(lg, value) ==
    IF ~lg.enabled THEN "ok"
    ELSE IF value.t \in {"dict", "list"} /\ ~JsonSerializable(value) THEN "TypeError"
    ELSE "ok"

\* Logger.tool_call(tool_name, args, result)
LoggerToolCall(lg, tool_name, args, result) ==
    IF ~lg.enabled THEN "ok"
    ELSE IF Truthy(args) /\ PrintItem(lg, args) # "ok" THEN PrintItem(lg, args)
    ELSE "ok"

\* Logger.decision(action, details): details is the decision mapping
LoggerDecision(lg, action, details) ==
    IF ~lg.enabled THEN "ok"
    ELSE IF action.t # "str" THEN "AttributeError"            \* action.upper()
    ELSE IF action = PyStr(L_tool)
         THEN IF Truthy(Get(details, "tool_args", PyNone))
              THEN PrintItem(lg, details["tool_args"])
              ELSE "ok"
         ELSE PrintItem(lg, Get(details, "final_answer", PyStr(<<>>)))

\* -------------------------------------------------------------------- Agent
\* Agent.register_tool: the tool's record (description and parameters feed
\* only the prompt text)
RegisterTool(tool) == [name |-> ToolName(tool), function |-> tool]

\* a mutant: the first registration of a name is kept
RECURSIVE BuildRegistryFirstWins(_)
BuildRegistryFirstWins(tools) ==
    IF Len(tools) = 0 THEN EmptyDict
    ELSE LET rest == BuildRegistryFirstWins(Tail(tools))
             info == RegisterTool(Head(tools))
         IN  Put(rest, info.name, info)

\* __init__: for tool in self.tools: self.tool_registry[info['name']] = info
RECURSIVE BuildRegistry(_)
BuildRegistry(tools) ==
    IF Len(tools) = 0 THEN EmptyDict
    ELSE LET info == RegisterTool(tools[Len(tools)])
         IN  Put(BuildRegistry(SubSeq(tools, 1, Len(tools) - 1)), info.name, info)

\* Agent.__init__, the fields of the new object
NewAgent(base_prompt, tools) ==
    [ base_prompt          |-> base_prompt,
      tools                |-> tools,
      conversation_history |-> <<>>,
      tool_call_history    |-> <<>>,
      tool_registry        |-> BuildRegistry(tools) ]

\* one entry of conversation_history
Message(role, content) == [role |-> role, content |-> content]

\* f"{role}: {msg['content']}" with role = msg['role'].upper()
FormatMessage(msg) == Upper(msg.role) \o L_ColonSp \o Str(msg.content)

\* a mutant: the oldest 20 messages are rendered
GetOptimizedHistoryOldest(history) ==
    LET recent_history == Take(history, HistoryWindow)
    IN  IF Len(recent_history) = 0 THEN L_NoPrev
        ELSE Join([i \in 1..Len(recent_history) |-> FormatMessage(recent_history[i])],
                  L_Newline)

\* Agent._get_optimized_history, of self.conversation_history
GetOptimizedHistory(history) ==
    LET recent_history == LastN(history, HistoryWindow)
    IN  IF Len(recent_history) = 0 THEN L_NoPrev
        ELSE Join([i \in 1..Len(recent_history) |-> FormatMessage(recent_history[i])],
                  L_Newline)

\* Agent.run: the shared context of a new run
NewShared(agent, query) ==
    [ query                |-> query,
      base_prompt          |-> agent.base_prompt,
      conversation_history |-> GetOptimizedHistory(agent.conversation_history),
      tool_registry        |-> agent.tool_registry,
      tool_calls           |-> <<>> ]

\* a mutant: the answer is not appended
UpdateHistoriesNoAnswer(agent, answer, tool_calls) ==
    [agent EXCEPT !.tool_call_history = @ \o tool_calls]

\* a mutant: the lifetime log is replaced by the run's records
UpdateHistoriesReplaceLog(agent, answer, tool_calls) ==
    [agent EXCEPT !.conversation_history = Append(@, Message(L_assistant, answer)),
                  !.tool_call_history = tool_calls]

\* Agent.run: self.conversation_history.append(assistant answer);
\* self.tool_call_history.extend(shared.get('tool_calls', []))
UpdateHistories(agent, answer, tool_calls) ==
    [agent EXCEPT !.conversation_history = Append(@, Message(L_assistant, answer)),
                  !.tool_call_history = @ \o tool_calls]

\* Agent.run: answer = shared.get('final_answer', 'Unable to generate response')
ExtractAnswer(shared) == Get(shared, "final_answer", PyStr(L_Unable))

\* a mutant: only the conversation is cleared
ClearedConversationOnly(agent) == [agent EXCEPT !.conversation_history = <<>>]

\* Agent.clear_history, on the agent's fields
Cleared(agent) ==
    [agent EXCEPT !.conversation_history = <<>>, !.tool_call_history = <<>>]

\* ------------------------------------------------------------ flow wiring
\* a mutant: the answer route leads back to the decision node
SuccessorAnswerLoops(node, action) ==
    CASE node = "decide" /\ action = "tool"      -> "call_tool"
      [] node = "decide" /\ action = "answer"    -> "decide"
      [] node = "call_tool" /\ action = "decide" -> "decide"
      [] OTHER                                   -> "none"

\* create_agent_flow: decide - "tool" >> call_tool, decide - "answer" >>
\* provide_answer, call_tool - "decide" >> decide; an action with no successor
\* ("done" of provide_answer) ends the flow
Successor(node, action) ==
    CASE node = "decide" /\ action = "tool"      -> "call_tool"
      [] node = "decide" /\ action = "answer"    -> "provide_answer"
      [] node = "call_tool" /\ action = "decide" -> "decide"
      [] OTHER                                   -> "none"

\* --------------------------------------------- what the model answers (inputs)
A_ok    == PyStr(<<"o", "k">>)
A_other == PyStr(<<"o", "t", "h", "e", "r">>)

ToolDecision(name, args) ==
    Put(Put(Put(EmptyDict, "action", PyStr(L_tool)), "tool_name", PyStr(name)),
        "tool_args", args)

ToolDecisionNoArgs(name) ==
    Put(Put(EmptyDict, "action", PyStr(L_tool)), "tool_name", PyStr(name))

ToolDecisionNoName == Put(EmptyDict, "action", PyStr(L_tool))

AnswerDecision(action, final_answer) ==
    Put(Put(EmptyDict, "action", action), "final_answer", final_answer)

\* the YAML mappings the fenced block can hold
ToolDecisions ==
    { ToolDecision(N_add, ArgsFit), ToolDecision(N_add, ArgsScalar),
      ToolDecisionNoArgs(N_boom), ToolDecision(N_ghost, ArgsDate),
      ToolDecisionNoName }

AnswerDecisions ==
    { AnswerDecision(PyStr(L_answer), A_ok),          \* final_answer: ok
      AnswerDecision(PyStr(L_answer), PyStr(<<>>)),   \* final_answer: ''
      AnswerDecision(PyStr(L_answer), PyNone),        \* final_answer:
      Put(EmptyDict, "action", PyStr(L_answer)),      \* no final_answer key
      AnswerDecision(A_other, A_ok),                  \* action: other
      AnswerDecision(PyNone, A_ok),                   \* action:
      Put(EmptyDict, "final_answer", A_ok) }          \* no action key

\* what call_llm does for one call: it raises (no credentials or client; the
\* provider or the network fails) or it returns the model's text, which holds
\* no ```yaml fence, a block yaml cannot load, a block that loads to a value
\* that is no mapping, or a mapping
Responses ==
    { [kind |-> k, d |-> EmptyDict] :
        k \in {"config_error", "transport_error", "no_fence", "yaml_error", "not_mapping"} }
    \cup { [kind |-> "mapping", d |-> d] : d \in ToolDecisions \cup AnswerDecisions }

IsToolResponse(resp) ==
    /\ resp.kind = "mapping"
    /\ Has(resp.d, "action") /\ resp.d["action"] = PyStr(L_tool)

\* ------------------------------------------------------------- DecideAction
Ok(val)  == [raised |-> FALSE, exc |-> "", val |-> val]
Err(exc) == [raised |-> TRUE, exc |-> exc, val |-> EmptyDict]

\* utils.call_llm: log and re-raise, or the response
CallLlm(resp) ==
    CASE resp.kind = "config_error"    -> Err("ValueError")
      [] resp.kind = "transport_error" -> Err("TransportError")
      [] OTHER                         -> Ok(resp)

\* DecideAction.exec after the call: response.split("```yaml")[1]...,
\* yaml.safe_load; the value is [isdict, d]
ExtractDecision(resp) ==
    CASE resp.kind = "no_fence"    -> Err("IndexError")
      [] resp.kind = "yaml_error"  -> Err("YAMLError")
      [] resp.kind = "not_mapping" -> Ok([isdict |-> FALSE, d |-> EmptyDict])
      [] OTHER                     -> Ok([isdict |-> TRUE, d |-> resp.d])

\* DecideAction.exec
DecideExec(resp) ==
    IF CallLlm(resp).raised THEN CallLlm(resp) ELSE ExtractDecision(resp)

Routed(shared, route) == [raised |-> FALSE, exc |-> "", shared |-> shared, route |-> route]
Failed(shared, exc)   == [raised |-> TRUE, exc |-> exc, shared |-> shared, route |-> ""]

\* DecideAction.post
DecidePost(shared, exec_res, lg) ==
    LET s1 == Put(shared, "last_decision", exec_res)
        d  == exec_res.d
    IN  IF ~exec_res.isdict THEN Failed(s1, "TypeError")        \* exec_res['action']
        ELSE IF ~Has(d, "action") THEN Failed(s1, "KeyError")
        ELSE IF LoggerDecision(lg, d["action"], d) # "ok"
             THEN Failed(s1, LoggerDecision(lg, d["action"], d))
        ELSE IF d["action"] = PyStr(L_tool) THEN Routed(s1, "tool")
        ELSE IF ~Has(d, "final_answer") THEN Failed(s1, "KeyError")
        ELSE Routed(Put(s1, "final_answer", d["final_answer"]), "answer")

\* ----------------------------------------------------------------- CallTool
\* a mutant: registry[tool_name] in place of registry.get(tool_name)
PrepToolSubscript(shared) ==
    LET d == shared["last_decision"].d
    IN  IF ~Has(d, "tool_name") THEN Err("KeyError")
        ELSE IF ~(d["tool_name"].t = "str" /\ Has(shared["tool_registry"], d["tool_name"].v))
        THEN Err("KeyError")
        ELSE Ok([ tool_func |-> shared["tool_registry"][d["tool_name"].v].function,
                  tool_name |-> d["tool_name"],
                  tool_args |-> Get(d, "tool_args", ArgsEmpty) ])

\* CallTool.prep: (tool_func, tool_name, tool_args); tool_func "None" when the
\* registry has no such name
PrepTool(shared) ==
    LET d == shared["last_decision"].d
    IN  IF ~Has(d, "tool_name") THEN Err("KeyError")
        ELSE LET tool_name == d["tool_name"]
                 tool_args == Get(d, "tool_args", ArgsEmpty)
                 registry  == shared["tool_registry"]
             IN  Ok([ tool_func |-> IF tool_name.t = "str" /\ Has(registry, tool_name.v)
                                    THEN registry[tool_name.v].function
                                    ELSE "None",
                      tool_name |-> tool_name,
                      tool_args |-> tool_args ])

\* a mutant: the message does not name the tool
ToolNotFoundAnonymous(tool_name) == L_ErrorTool \o L_NotFound

\* f"Error: Tool '{tool_name}' not found"
ToolNotFound(tool_name) == L_ErrorTool \o Str(tool_name) \o L_NotFound

\* a mutant: the exception's message is dropped
ErrorCallingNoMessage(tool_name, msg) == L_ErrorCalling \o Str(tool_name)

\* f"Error calling {tool_name}: {str(e)}"
ErrorCalling(tool_name, msg) == L_ErrorCalling \o Str(tool_name) \o L_ColonSp \o msg

\* a mutant: tool_args is always unpacked
InvokeToolUnpacking(tool_func, tool_args) == CallKeywords(tool_func, tool_args)

\* the call in CallTool.exec: keywords for a dict, else one positional argument
InvokeTool(tool_func, tool_args) ==
    IF tool_args.t = "dict" THEN CallKeywords(tool_func, tool_args)
    ELSE CallPositional(tool_func, tool_args)

\* CallTool.exec: the result string
ExecTool(tool_func, tool_name, tool_args, lg) ==
    IF tool_func = "None" THEN ToolNotFound(tool_name)
    ELSE LET r == InvokeTool(tool_func, tool_args)
         IN  IF ~r.ok THEN ErrorCalling(tool_name, Str(r.val))
             ELSE IF LoggerToolCall(lg, tool_name, tool_args, Str(r.val)) # "ok"
                  THEN ErrorCalling(tool_name, M_Json)
             ELSE Str(r.val)

ToolCallRecord(tool_name, tool_args, result) ==
    [tool |-> tool_name, args |-> tool_args, result |-> result]

\* a mutant: the record is appended twice
RecordToolCallTwice(tool_calls, rec) == Append(Append(tool_calls, rec), rec)

\* CallTool.post: shared['tool_calls'].append({...})
RecordToolCall(tool_calls, rec) == Append(tool_calls, rec)

\* --------------------------------------------------- the prompt's tool section
\* f"- {call['tool']}: {call['result'][:200]}..."
FormatCall(call) ==
    L_Dash \o Str(call.tool) \o L_ColonSp \o Take(call.result, ResultCut) \o L_Ellipsis

\* a mutant: the first five records are listed
ToolHistoryOldest(tool_calls) ==
    IF Len(tool_calls) = 0 THEN <<>>
    ELSE LET recent == Take(tool_calls, RecentCalls)
         IN  L_RecentCalls
             \o Join([i \in 1..Len(recent) |-> FormatCall(recent[i])], L_Newline)

\* DecideAction.exec: tool_history, the "Recent Tool Calls" part of the prompt
ToolHistory(tool_calls) ==
    IF Len(tool_calls) = 0 THEN <<>>
    ELSE LET recent == LastN(tool_calls, RecentCalls)
         IN  L_RecentCalls
             \o Join([i \in 1..Len(recent) |-> FormatCall(recent[i])], L_Newline)

\* -------------------------------------------------------------------- state
VARIABLES
    agents,       \* agent id -> the Agent object's fields
    runs,         \* thread id -> the run() call that thread is in
    logger,       \* logger._logger, the global Logger
    lastOp,       \* history: the operation that made this state
    runsStarted,  \* history: run() calls started so far
    toolSteps     \* history: CALLING_TOOL steps taken so far

vars == <<agents, runs, logger, lastOp, runsStarted, toolSteps>>

BasePrompt == PyStr(<<"B">>)
Queries    == {PyStr(<<"q">>)}

\* the lists of tools a caller can pass
ToolLists ==
    { <<"add1", "boom">>, <<"add1", "add2">>, <<"add2", "add1", "boom">> }

NoOutcome       == [kind |-> "none", exc |-> "", at |-> "", value |-> PyNone]
ReturnedTo(val) == [kind |-> "returned", exc |-> "", at |-> "", value |-> val]
RaisedTo(exc, at) == [kind |-> "raised", exc |-> exc, at |-> at, value |-> PyNone]

\* a thread that is in no run() call
IdleRun(a) ==
    [ agent |-> a, pc |-> "idle", node |-> "none", shared |-> EmptyDict,
      outcome |-> NoOutcome,
      hist0 |-> <<>>, log0 |-> <<>>,   \* history: the agent's two logs at run() entry
      nllm |-> 0,                      \* history: call_llm calls of this run
      ninvoked |-> 0,                  \* history: tool functions called in this run
      stepped |-> <<>>,                \* history: decisions the CALLING_TOOL steps took
      resp |-> [kind |-> "none", d |-> EmptyDict],  \* history: what the last model call gave
      tool_history |-> <<>> ]          \* history: tool_history of the last prompt built

\* Agent(base_prompt, tools, logging, verbose_logging) has returned
Init ==
    \E tools \in ToolLists, logging \in BOOLEAN, verbose_logging \in {FALSE} :
        /\ logger = SetLogging(logging \/ verbose_logging, verbose_logging)
        /\ agents = [a \in {"A"} |-> NewAgent(BasePrompt, tools)]
        /\ runs = [t \in {"t1"} |-> IdleRun("A")]
        /\ lastOp = "init"
        /\ runsStarted = 0
        /\ toolSteps = 0

\* the run r after exc has left the node step `at` and run()
RaisedRun(r, shared, exc, at) ==
    [r EXCEPT !.pc = "idle", !.node = "none", !.shared = shared,
              !.outcome = RaisedTo(exc, at)]

\* run() raises exc out of the node step `at`
Raise(t, shared, exc, at) ==
    [runs EXCEPT ![t] = RaisedRun(runs[t], shared, exc, at)]

\* a mutant: run() takes a lock of the agent
RunStartLocked(t, query) ==
    LET a == runs[t].agent IN
    /\ runs[t].pc = "idle"
    /\ \A u \in DOMAIN runs : runs[u].agent = a => runs[u].pc = "idle"
    /\ agents' = [agents EXCEPT ![a].conversation_history =
                                     Append(@, Message(L_user, query))]
    /\ runs' = [runs EXCEPT ![t] =
                 [ IdleRun(a) EXCEPT !.pc = "running", !.node = "decide",
                                     !.shared = NewShared(agents'[a], query),
                                     !.hist0 = agents[a].conversation_history,
                                     !.log0 = agents[a].tool_call_history ]]
    /\ lastOp' = "run_start"
    /\ runsStarted' = runsStarted + 1
    /\ UNCHANGED <<logger, toolSteps>>

\* Agent.run up to flow.run(shared)
RunStart(t, query) ==
    LET a == runs[t].agent IN
    /\ runs[t].pc = "idle"
    /\ agents' = [agents EXCEPT ![a].conversation_history =
                                     Append(@, Message(L_user, query))]
    /\ runs' = [runs EXCEPT ![t] =
                 [ IdleRun(a) EXCEPT !.pc = "running", !.node = "decide",
                                     !.shared = NewShared(agents'[a], query),
                                     !.hist0 = agents[a].conversation_history,
                                     !.log0 = agents[a].tool_call_history ]]
    /\ lastOp' = "run_start"
    /\ runsStarted' = runsStarted + 1
    /\ UNCHANGED <<logger, toolSteps>>

\* the run r after one DecideAction node (prep, exec, post) under logger lg,
\* the model call giving resp
AfterDecide(r, resp, lg) ==
    LET ex   == DecideExec(resp)
        po   == DecidePost(r.shared, ex.val, lg)
        sent == [r EXCEPT !.nllm = @ + 1, !.resp = resp,
                          !.tool_history = ToolHistory(r.shared["tool_calls"])]
    IN  IF ex.raised
        THEN RaisedRun(sent, r.shared, ex.exc,
                       IF CallLlm(resp).raised THEN "call_llm" ELSE "DecideAction.exec")
        ELSE IF po.raised
        THEN RaisedRun(sent, po.shared, po.exc, "DecideAction.post")
        ELSE [sent EXCEPT !.shared = po.shared,
                          !.node = Successor("decide", po.route)]

\* a mutant: a failing step saves the run's records in the lifetime log
DecideSavingLog(t, resp) ==
    LET after == AfterDecide(runs[t], resp, logger) IN
    /\ runs[t].pc = "running" /\ runs[t].node = "decide"
    /\ runs' = [runs EXCEPT ![t] = after]
    /\ agents' = IF after.outcome.kind = "raised"
                 THEN [agents EXCEPT ![runs[t].agent].tool_call_history =
                                        @ \o runs[t].shared["tool_calls"]]
                 ELSE agents
    /\ lastOp' = "decide"
    /\ UNCHANGED <<logger, runsStarted, toolSteps>>

\* one DecideAction node: prep, exec (the model call, the parse), post
Decide(t, resp) ==
    /\ runs[t].pc = "running" /\ runs[t].node = "decide"
    /\ runs' = [runs EXCEPT ![t] = AfterDecide(runs[t], resp, logger)]
    /\ lastOp' = "decide"
    /\ UNCHANGED <<agents, logger, runsStarted, toolSteps>>

\* the run r after one CallTool node (prep, exec, post) under logger lg
AfterCallTool(r, lg) ==
    LET pr == PrepTool(r.shared)
        in == pr.val
        exec_res == ExecTool(in.tool_func, in.tool_name, in.tool_args, lg)
        rec == ToolCallRecord(in.tool_name, in.tool_args, exec_res)
        entered == [r EXCEPT !.stepped = Append(@, r.shared["last_decision"].d)]
    IN  IF pr.raised
        THEN RaisedRun(entered, r.shared, pr.exc, "CallTool.prep")
        ELSE [entered EXCEPT
                !.shared = Put(r.shared, "tool_calls",
                               RecordToolCall(r.shared["tool_calls"], rec)),
                !.node = Successor("call_tool", "decide"),
                !.ninvoked = IF in.tool_func = "None" THEN @ ELSE @ + 1]

\* one CallTool node: prep, exec, post
CallTool(t) ==
    /\ runs[t].pc = "running" /\ runs[t].node = "call_tool"
    /\ runs' = [runs EXCEPT ![t] = AfterCallTool(runs[t], logger)]
    /\ lastOp' = "call_tool"
    /\ toolSteps' = toolSteps + 1
    /\ UNCHANGED <<agents, logger, runsStarted>>

\* the ProvideAnswer node: it returns 'done', which has no successor
ProvideAnswer(t) ==
    /\ runs[t].pc = "running" /\ runs[t].node = "provide_answer"
    /\ runs' = [runs EXCEPT ![t].node = Successor("provide_answer", "done")]
    /\ lastOp' = "provide_answer"
    /\ UNCHANGED <<agents, logger, runsStarted, toolSteps>>

\* Agent.run after flow.run(shared) has returned
RunFinish(t) ==
    LET a == runs[t].agent
        answer == ExtractAnswer(runs[t].shared)
    IN
    /\ runs[t].pc = "running" /\ runs[t].node = "none"
    /\ agents' = [agents EXCEPT ![a] =
                    UpdateHistories(@, answer, Get(runs[t].shared, "tool_calls", <<>>))]
    /\ runs' = [runs EXCEPT ![t].pc = "idle", ![t].outcome = ReturnedTo(answer)]
    /\ lastOp' = "run_finish"
    /\ UNCHANGED <<logger, runsStarted, toolSteps>>

\* Agent.clear_history, called between runs
ClearHistory(a) ==
    /\ \A t \in DOMAIN runs : runs[t].agent = a => runs[t].pc = "idle"
    /\ agents' = [agents EXCEPT ![a] = Cleared(@)]
    /\ lastOp' = "clear_history"
    /\ UNCHANGED <<runs, logger, runsStarted, toolSteps>>

Next ==
    \/ \E t \in DOMAIN runs, query \in Queries :
          runsStarted < MaxRuns /\ RunStart(t, query)
    \/ \E t \in DOMAIN runs, resp \in Responses :
          (IsToolResponse(resp) => toolSteps < MaxToolCalls) /\ Decide(t, resp)
    \/ \E t \in DOMAIN runs : CallTool(t)
    \/ \E t \in DOMAIN runs : ProvideAnswer(t)
    \/ \E t \in DOMAIN runs : RunFinish(t)
    \/ \E a \in DOMAIN agents : ClearHistory(a)

Spec == Init /\ [][Next]_vars

\* ------------------------------------------------- long histories: SpecHist
\* The same agent over many runs, to let conversation_history outgrow the
\* window of 20: one tool list, logging off, and a model that answers at once
\* or whose call fails (which leaves the query in the history unanswered).
HistResponses ==
    { [kind |-> "transport_error", d |-> EmptyDict],
      [kind |-> "mapping", d |-> AnswerDecision(PyStr(L_answer), A_ok)] }

InitHist ==
    /\ Init
    /\ ~logger.enabled
    /\ agents["A"].tools = <<"add1", "boom">>

NextHist ==
    \/ \E t \in DOMAIN runs, query \in Queries :
          runsStarted < HistRuns /\ RunStart(t, query)
    \/ \E t \in DOMAIN runs, resp \in HistResponses : Decide(t, resp)
    \/ \E t \in DOMAIN runs : ProvideAnswer(t)
    \/ \E t \in DOMAIN runs : RunFinish(t)

SpecHist == InitHist /\ [][NextHist]_vars

\* ------------------------------------------------------ two agents: SpecTwo
\* Agent A is there with logging off; a second agent B is constructed at any
\* moment, before or during a run of A, and runs on a thread of its own.
TwoResponses ==
    { [kind |-> "mapping", d |-> ToolDecision(N_add, ArgsDate)],
      [kind |-> "mapping", d |-> AnswerDecision(PyStr(L_answer), A_ok)] }

\* Agent.__init__ for a further agent: set_logging replaces the global logger
Construct(a, tools, logging) ==
    /\ a \notin DOMAIN agents
    /\ logger' = SetLogging(logging, FALSE)
    /\ agents' = [x \in DOMAIN agents \cup {a} |->
                    IF x = a THEN NewAgent(BasePrompt, tools) ELSE agents[x]]
    /\ lastOp' = "construct"
    /\ UNCHANGED <<runs, runsStarted, toolSteps>>

InitTwo ==
    /\ logger = SetLogging(FALSE, FALSE)
    /\ agents = [a \in {"A"} |-> NewAgent(BasePrompt, <<"add1", "add2">>)]
    /\ runs = [t \in {"t1", "t2"} |-> IdleRun(IF t = "t1" THEN "A" ELSE "B")]
    /\ lastOp = "init"
    /\ runsStarted = 0
    /\ toolSteps = 0

NextTwo ==
    \/ \E tools \in ToolLists, logging \in BOOLEAN : Construct("B", tools, logging)
    \/ \E t \in DOMAIN runs, query \in Queries :
          /\ runs[t].agent \in DOMAIN agents
          /\ runsStarted < MaxRuns
          /\ RunStart(t, query)
    \/ \E t \in DOMAIN runs, resp \in TwoResponses :
          (IsToolResponse(resp) => toolSteps < MaxToolCalls) /\ Decide(t, resp)
    \/ \E t \in DOMAIN runs : CallTool(t)
    \/ \E t \in DOMAIN runs : ProvideAnswer(t)
    \/ \E t \in DOMAIN runs : RunFinish(t)

SpecTwo == InitTwo /\ [][NextTwo]_vars

\* ------------------------------------------------------ long runs: SpecPrompt
\* One run that calls tools more often than the prompt lists, with results
\* shorter and longer than the prompt shows: add(7) returns "7", add of a
\* long text returns that text, "ghost" is no tool.
LongText == PyStr([i \in 1..(ResultCut + 1) |-> "x"])

PromptResponses ==
    { [kind |-> "mapping", d |-> ToolDecision(N_add, ArgsScalar)],
      [kind |-> "mapping", d |-> ToolDecision(N_add, LongText)],
      [kind |-> "mapping", d |-> ToolDecision(N_ghost, ArgsEmpty)],
      [kind |-> "mapping", d |-> AnswerDecision(PyStr(L_answer), A_ok)] }

InitPrompt ==
    /\ Init
    /\ ~logger.enabled
    /\ agents["A"].tools = <<"add1", "add2">>

NextPrompt ==
    \/ \E t \in DOMAIN runs, query \in Queries :
          runsStarted < PromptRuns /\ RunStart(t, query)
    \/ \E t \in DOMAIN runs, resp \in PromptResponses :
          (IsToolResponse(resp) => toolSteps < PromptCalls) /\ Decide(t, resp)
    \/ \E t \in DOMAIN runs : CallTool(t)
    \/ \E t \in DOMAIN runs : ProvideAnswer(t)
    \/ \E t \in DOMAIN runs : RunFinish(t)

SpecPrompt == InitPrompt /\ [][NextPrompt]_vars

\* ------------------------------------------ two threads, one agent: SpecConc
\* Two threads call run() on the same agent, each with a query of its own;
\* the steps of their runs interleave. The model answers, or calls a tool
\* that is not there.
ConcQuery(t) == IF t = "t1" THEN PyStr(<<"q">>) ELSE PyStr(<<"r">>)

ConcResponses ==
    { [kind |-> "mapping", d |-> ToolDecision(N_ghost, ArgsEmpty)],
      [kind |-> "mapping", d |-> AnswerDecision(PyStr(L_answer), A_ok)] }

InitConc ==
    /\ logger = SetLogging(FALSE, FALSE)
    /\ agents = [a \in {"A"} |-> NewAgent(BasePrompt, <<"add1", "boom">>)]
    /\ runs = [t \in {"t1", "t2"} |-> IdleRun("A")]
    /\ lastOp = "init"
    /\ runsStarted = 0
    /\ toolSteps = 0

NextConc ==
    \/ \E t \in DOMAIN runs :
          runsStarted < ConcRuns /\ RunStart(t, ConcQuery(t))
    \/ \E t \in DOMAIN runs, resp \in ConcResponses :
          (IsToolResponse(resp) => toolSteps < MaxToolCalls) /\ Decide(t, resp)
    \/ \E t \in DOMAIN runs : CallTool(t)
    \/ \E t \in DOMAIN runs : ProvideAnswer(t)
    \/ \E t \in DOMAIN runs : RunFinish(t)

SpecConc == InitConc /\ [][NextConc]_vars

\* ---------------------------------------------------------------- shorthand
Threads == DOMAIN runs

Running(t) == runs[t].pc = "running"

\* DONE: the flow has ended, run() has not yet returned
Done(t) == runs[t].pc = "running" /\ runs[t].node = "none"

\* the run holds a decision mapping
HasDecision(t) ==
    Has(runs[t].shared, "last_decision") /\ runs[t].shared["last_decision"].isdict

Decision(t) == runs[t].shared["last_decision"].d

ToolCalls(t) == runs[t].shared["tool_calls"]

\* the DECIDING step just taken gave a decision whose action is "answer"
DecidedAnswer(t) ==
    /\ lastOp = "decide" /\ Running(t) /\ HasDecision(t)
    /\ Has(Decision(t), "action") /\ Decision(t)["action"] = PyStr(L_answer)

\* the run is about to take a CALLING_TOOL step for a decision that names a tool
AtCallTool(t) ==
    /\ Running(t) /\ runs[t].node = "call_tool"
    /\ Has(Decision(t), "tool_name")

Registered(t) ==
    /\ Decision(t)["tool_name"].t = "str"
    /\ Decision(t)["tool_name"].v \in DOMAIN agents[runs[t].agent].tool_registry

\* the step from this state appended exactly one record, kept the others in
\* place, raised nothing and went back to DECIDING
AppendedOne(t) ==
    /\ runs'[t].pc = "running" /\ runs'[t].node = "decide"
    /\ runs'[t].outcome.kind = "none"
    /\ Len(runs'[t].shared["tool_calls"]) = Len(ToolCalls(t)) + 1
    /\ SubSeq(runs'[t].shared["tool_calls"], 1, Len(ToolCalls(t))) = ToolCalls(t)

NewRecord(t) == runs'[t].shared["tool_calls"][Len(ToolCalls(t)) + 1]

\* ------------------------------------------------------------------- claims

\* C1: when a DECIDING step gives a decision with action "answer", the next
\* step of the run ends the flow (DONE) with no model call, no tool call and
\* no new record, and run() then returns that decision's final_answer.
C1_AnswerEndsRun ==
    /\ [][\A t \in Threads : DecidedAnswer(t) =>
            /\ runs'[t].pc = "running" /\ runs'[t].node = "none"
            /\ runs'[t].nllm = runs[t].nllm
            /\ runs'[t].ninvoked = runs[t].ninvoked
            /\ toolSteps' = toolSteps
            /\ runs'[t].shared["tool_calls"] = ToolCalls(t)
            /\ runs'[t].shared["final_answer"] = Decision(t)["final_answer"]]_vars
    /\ [](\A t \in Threads :
            ( /\ lastOp = "run_finish" /\ HasDecision(t)
              /\ Has(Decision(t), "action") /\ Decision(t)["action"] = PyStr(L_answer) )
            => /\ runs[t].outcome.kind = "returned"
               /\ runs[t].outcome.value = Decision(t)["final_answer"])

\* C1 happens: a run that called a tool and then got action "answer" has returned
C1_Witness ==
    \E t \in Threads :
        /\ lastOp = "run_finish" /\ HasDecision(t)
        /\ Decision(t) = AnswerDecision(PyStr(L_answer), A_ok)
        /\ runs[t].outcome = ReturnedTo(A_ok)
        /\ Len(ToolCalls(t)) >= 1

\* C2: whenever a run is DONE or has returned, final_answer is there and is
\* neither null nor the empty string.
C2_FinalAnswerNonEmpty ==
    \A t \in Threads :
        (Done(t) \/ runs[t].outcome.kind = "returned")
        => /\ Has(runs[t].shared, "final_answer")
           /\ runs[t].shared["final_answer"] # PyNone
           /\ runs[t].shared["final_answer"] # PyStr(<<>>)

\* C3: a CALLING_TOOL step for a tool_name that is no key of the registry
\* calls no tool function, raises nothing, appends exactly one record, whose
\* result contains the tool name, and goes back to DECIDING.
C3_UnknownToolRecorded ==
    [][\A t \in Threads : (AtCallTool(t) /\ ~Registered(t)) =>
          /\ AppendedOne(t)
          /\ runs'[t].ninvoked = runs[t].ninvoked
          /\ NewRecord(t).tool = Decision(t)["tool_name"]
          /\ Contains(NewRecord(t).result, Str(Decision(t)["tool_name"]))]_vars

\* C3 happens: the record of a call of the unregistered "ghost" is there
C3_Witness ==
    \E t \in Threads :
        /\ lastOp = "call_tool" /\ Running(t) /\ runs[t].node = "decide"
        /\ Len(ToolCalls(t)) >= 1
        /\ ToolCalls(t)[Len(ToolCalls(t))].tool = PyStr(N_ghost)
        /\ ToolCalls(t)[Len(ToolCalls(t))].result = L_ErrorTool \o N_ghost \o L_NotFound
        /\ runs[t].ninvoked = 0

\* the call Python makes for the decision of thread t, were its tool registered
CallOutcome(t) ==
    InvokeTool(agents[runs[t].agent].tool_registry[Decision(t)["tool_name"].v].function,
               Get(Decision(t), "tool_args", ArgsEmpty))

\* C4: when the call of a registered tool raises, the CALLING_TOOL step raises
\* nothing: it appends exactly one record, whose result contains the tool name
\* and the exception's message, and goes back to DECIDING.
C4_ToolExceptionRecorded ==
    [][\A t \in Threads : (AtCallTool(t) /\ Registered(t) /\ ~CallOutcome(t).ok) =>
          /\ AppendedOne(t)
          /\ NewRecord(t).tool = Decision(t)["tool_name"]
          /\ Contains(NewRecord(t).result, Str(Decision(t)["tool_name"]))
          /\ Contains(NewRecord(t).result, Str(CallOutcome(t).val))]_vars

\* C4 happens: boom() raised "kaput" and the run went on
C4_Witness ==
    \E t \in Threads :
        /\ lastOp = "call_tool" /\ Running(t) /\ runs[t].node = "decide"
        /\ Len(ToolCalls(t)) >= 1
        /\ ToolCalls(t)[Len(ToolCalls(t))].result
             = L_ErrorCalling \o N_boom \o L_ColonSp \o M_Kaput
        /\ runs[t].ninvoked >= 1

\* C5: in a run every CALLING_TOOL step appends exactly one record at the end,
\* no other step touches tool_calls, and the records are those of the
\* CALLING_TOOL steps taken, in the order they were taken.
C5_AppendOnly ==
    /\ [][\A t \in Threads : Running(t) =>
            IF runs[t].node = "call_tool"
            THEN \/ runs'[t] = runs[t]
                 \/ /\ Len(runs'[t].shared["tool_calls"]) = Len(ToolCalls(t)) + 1
                    /\ SubSeq(runs'[t].shared["tool_calls"], 1, Len(ToolCalls(t)))
                         = ToolCalls(t)
            ELSE runs'[t].shared["tool_calls"] = ToolCalls(t)]_vars
    /\ [](\A t \in Threads : Has(runs[t].shared, "tool_calls") =>
            /\ Len(ToolCalls(t)) = Len(runs[t].stepped)
            /\ \A i \in 1..Len(ToolCalls(t)) :
                 /\ Has(runs[t].stepped[i], "tool_name")
                 /\ ToolCalls(t)[i].tool = runs[t].stepped[i]["tool_name"])

\* C6: when run() returns, conversation_history is what it was at the call
\* followed by the USER entry of the query and the ASSISTANT entry of the
\* returned answer; nothing before is lost, however long the history is.
C6_RunAppendsExchange ==
    \A t \in Threads :
        (lastOp = "run_finish" /\ runs[t].outcome.kind = "returned")
        => agents[runs[t].agent].conversation_history
             = runs[t].hist0
               \o << Message(L_user, runs[t].shared["query"]),
                     Message(L_assistant, runs[t].outcome.value) >>

\* C6 happens: a run returned whose history already held 20 or more messages
C6_Witness ==
    \E t \in Threads :
        /\ lastOp = "run_finish" /\ runs[t].outcome.kind = "returned"
        /\ Len(runs[t].hist0) >= 20
        /\ Len(agents[runs[t].agent].conversation_history) = Len(runs[t].hist0) + 2

\* the lines of a text
RECURSIVE SplitLines(_)
SplitLines(s) ==
    IF \A i \in 1..Len(s) : s[i] # "\n" THEN <<s>>
    ELSE LET k == CHOOSE i \in 1..Len(s) :
                    s[i] = "\n" /\ \A j \in 1..(i - 1) : s[j] # "\n"
         IN  <<SubSeq(s, 1, k - 1)>> \o SplitLines(SubSeq(s, k + 1, Len(s)))

\* C7: the history a run shows the model has one line per message for the
\* last 20 messages of conversation_history (all of them if there are fewer),
\* oldest first, each line "ROLE: content".
C7_RenderedLast20 ==
    \A t \in Threads : Running(t) =>
        LET h     == agents[runs[t].agent].conversation_history
            n     == IF Len(h) < 20 THEN Len(h) ELSE 20
            lines == SplitLines(runs[t].shared["conversation_history"])
        IN  /\ Len(lines) = n
            /\ \A i \in 1..n :
                 lines[i] = Upper(h[Len(h) - n + i].role) \o <<":", " ">>
                              \o Str(h[Len(h) - n + i].content)

\* C7 happens: a run is under way whose history holds more than 20 messages
C7_Witness ==
    \E t \in Threads :
        /\ Running(t) /\ lastOp = "run_start"
        /\ Len(agents[runs[t].agent].conversation_history) > 20
        /\ Len(SplitLines(runs[t].shared["conversation_history"])) = 20

\* C8: clear_history() leaves conversation_history and tool_call_history
\* empty and the registry, the tools and the base prompt as they were; the
\* run started next is shown its own query and nothing else.
C8_ClearHistory ==
    /\ [](lastOp = "clear_history" =>
            \A a \in DOMAIN agents :
                /\ agents[a].conversation_history = <<>>
                /\ agents[a].tool_call_history = <<>>)
    /\ [][lastOp' = "clear_history" =>
            \A a \in DOMAIN agents :
                /\ agents'[a].tool_registry = agents[a].tool_registry
                /\ agents'[a].tools = agents[a].tools
                /\ agents'[a].base_prompt = agents[a].base_prompt]_vars
    /\ [][(lastOp = "clear_history" /\ lastOp' = "run_start") =>
            \A t \in Threads : runs'[t].pc = "running" =>
                runs'[t].shared["conversation_history"]
                  = <<"U", "S", "E", "R", ":", " ">> \o Str(runs'[t].shared["query"])]_vars

\* C8 happens: the second run returned with a tool call in its log, and then
\* clear_history() was called
C8_Witness ==
    \E t \in Threads :
        /\ lastOp = "clear_history" /\ runsStarted = 2
        /\ runs[t].outcome.kind = "returned" /\ Len(ToolCalls(t)) >= 1
        /\ agents[runs[t].agent].conversation_history = <<>>
        /\ agents[runs[t].agent].tool_call_history = <<>>

\* C9: the registry's keys are the names of the tools given, each key holds
\* the last tool given under that name, and no step changes the registry.
C9_Registry ==
    /\ [](\A a \in DOMAIN agents :
            LET tools == agents[a].tools
                reg   == agents[a].tool_registry
            IN  /\ DOMAIN reg = {ToolName(tools[i]) : i \in 1..Len(tools)}
                /\ \A i \in 1..Len(tools) :
                     (\A j \in (i + 1)..Len(tools) : ToolName(tools[j]) # ToolName(tools[i]))
                     => /\ reg[ToolName(tools[i])].function = tools[i]
                        /\ reg[ToolName(tools[i])].name = ToolName(tools[i]))
    /\ [][\A a \in DOMAIN agents :
            agents'[a].tool_registry = agents[a].tool_registry]_vars

\* C9 happens: two tools share a name, a run with a tool call has returned
C9_Witness ==
    \E t \in Threads :
        /\ Len(agents[runs[t].agent].tools)
             > Cardinality(DOMAIN agents[runs[t].agent].tool_registry)
        /\ lastOp = "run_finish" /\ Len(ToolCalls(t)) >= 1

\* C10 as stated: a run ends with an error only when the model call fails
\* (configuration or transport).
C10_OnlyLlmFailuresEndRun ==
    \A t \in Threads : runs[t].outcome.kind = "raised" => runs[t].outcome.at = "call_llm"

\* C10 amended: a run ends with an error only in the DECIDING step (the model
\* call fails; the response has no fenced block or one yaml cannot load; the
\* block is no mapping or lacks the field its action needs; logging the
\* decision fails) or when a "tool" decision names no tool.  A CALLING_TOOL
\* step for a named tool raises nothing: unknown tool, tool raising and
\* arguments that do not fit end as the result of one more record, and the
\* loop goes on.
C10_WhatEndsARun ==
    \A t \in Threads :
        /\ runs[t].outcome.kind = "raised" =>
             \/ /\ runs[t].outcome.at = "call_llm"
                /\ runs[t].outcome.exc \in {"ValueError", "TransportError"}
             \/ /\ runs[t].outcome.at = "DecideAction.exec"
                /\ runs[t].outcome.exc \in {"IndexError", "YAMLError"}
             \/ /\ runs[t].outcome.at = "DecideAction.post"
                /\ \/ ~runs[t].shared["last_decision"].isdict
                   \/ ~Has(Decision(t), "action")
                   \/ /\ Decision(t)["action"] # PyStr(L_tool)
                      /\ ~Has(Decision(t), "final_answer")
                   \/ /\ logger.enabled
                      /\ \/ Decision(t)["action"].t # "str"
                         \/ ~JsonSerializable(Get(Decision(t), "tool_args", PyNone))
             \/ /\ runs[t].outcome.at = "CallTool.prep"
                /\ ~Has(Decision(t), "tool_name")
        /\ (lastOp = "call_tool" /\ HasDecision(t) /\ Has(Decision(t), "tool_name")) =>
             /\ Running(t) /\ runs[t].node = "decide" /\ runs[t].outcome.kind = "none"
             /\ Len(ToolCalls(t)) >= 1
             /\ LET rec == ToolCalls(t)[Len(ToolCalls(t))]
                IN  /\ rec.tool = Decision(t)["tool_name"]
                    /\ ~Registered(t) =>
                         Take(rec.result, Len(L_ErrorTool)) = L_ErrorTool
                    /\ (Registered(t) /\ ~CallOutcome(t).ok) =>
                         Take(rec.result, Len(L_ErrorCalling)) = L_ErrorCalling

\* C10 happens: a tool raised, the run went on, and a later response without
\* a fenced block ended it
C10_Witness ==
    \E t \in Threads :
        /\ runs[t].outcome = RaisedTo("IndexError", "DecideAction.exec")
        /\ Len(ToolCalls(t)) >= 1
        /\ ToolCalls(t)[1].result = L_ErrorCalling \o N_boom \o L_ColonSp \o M_Kaput

\* thread t takes a DECIDING step (every such step makes one model call)
DecideStep(t) ==
    /\ Running(t) /\ runs[t].node = "decide"
    /\ runs'[t].nllm = runs[t].nllm + 1

\* C11: a DECIDING step whose model response holds no fenced block makes
\* run() fail with a DecisionParseError; the step invokes no tool and leaves
\* tool_calls as it was.
C11_NoFenceIsDecisionParseError ==
    [][\A t \in Threads : (DecideStep(t) /\ runs'[t].resp.kind = "no_fence") =>
          /\ runs'[t].outcome.kind = "raised"
          /\ runs'[t].outcome.exc = "DecisionParseError"
          /\ runs'[t].ninvoked = runs[t].ninvoked
          /\ runs'[t].shared["tool_calls"] = ToolCalls(t)]_vars

LoggingOn  == SetLogging(TRUE, FALSE)
LoggingOff == SetLogging(FALSE, FALSE)

\* C12: logging never affects control flow. From a state that the run with
\* logging enabled and the run with logging disabled are both in, the same
\* model response (in DECIDING) or the same tool (in CALLING_TOOL) takes both
\* to the same next state, tool-call record, answer or error; by induction the
\* two runs then pass through the same states.
C12_LoggingNoEffect ==
    \A t \in Threads :
        /\ (Running(t) /\ runs[t].node = "decide") =>
              \A resp \in Responses :
                  AfterDecide(runs[t], resp, LoggingOn)
                    = AfterDecide(runs[t], resp, LoggingOff)
        /\ (Running(t) /\ runs[t].node = "call_tool") =>
              AfterCallTool(runs[t], LoggingOn) = AfterCallTool(runs[t], LoggingOff)

\* the step is one of another agent than a: that agent is constructed, or a
\* thread running it moves
StepOfOther(a) ==
    \/ \E b \in DOMAIN agents' : b # a /\ b \notin DOMAIN agents
    \/ \E u \in Threads : runs[u].agent # a /\ runs'[u] # runs[u]

\* C13: distinct agents share no mutable state. A step of another agent
\* (its construction, a step of its run) leaves the fields of agent A and the
\* run of A as they are, and leaves what A's run does next as it was: the
\* same response, the same tool take A's run to the same state after the step
\* as before it.
C13_AgentsIndependent ==
    [][\A t \in Threads : StepOfOther(runs[t].agent) =>
          /\ runs[t].agent \in DOMAIN agents =>
                agents'[runs[t].agent] = agents[runs[t].agent]
          /\ runs'[t] = runs[t]
          /\ (Running(t) /\ runs[t].node = "decide") =>
                \A resp \in TwoResponses :
                    AfterDecide(runs[t], resp, logger')
                      = AfterDecide(runs[t], resp, logger)
          /\ (Running(t) /\ runs[t].node = "call_tool") =>
                AfterCallTool(runs[t], logger') = AfterCallTool(runs[t], logger)]_vars

LifetimeLog(t) == agents[runs[t].agent].tool_call_history

\* C14: a run starts with an empty tool_calls; while it is in progress the
\* lifetime log keeps the value it had at the call; when run() has returned
\* the lifetime log is that value followed by the run's records, which are in
\* the order of its CALLING_TOOL steps. (Run after run, the log is then the
\* concatenation of the runs' records in run order.)
C14_LifetimeLog ==
    \A t \in Threads :
        /\ lastOp = "run_start" => ToolCalls(t) = <<>>
        /\ Running(t) => LifetimeLog(t) = runs[t].log0
        /\ (lastOp = "run_finish" /\ runs[t].outcome.kind = "returned") =>
              /\ LifetimeLog(t) = runs[t].log0 \o ToolCalls(t)
              /\ Len(ToolCalls(t)) = Len(runs[t].stepped)
              /\ \A i \in 1..Len(ToolCalls(t)) :
                    /\ ToolCalls(t)[i].tool = runs[t].stepped[i]["tool_name"]
                    /\ ToolCalls(t)[i].args
                         = Get(runs[t].stepped[i], "tool_args", ArgsEmpty)

\* C14 happens: a second run that called a tool has returned, on top of the
\* record of the first run
C14_Witness ==
    \E t \in Threads :
        /\ lastOp = "run_finish" /\ runs[t].outcome.kind = "returned"
        /\ Len(runs[t].log0) >= 1 /\ Len(ToolCalls(t)) >= 1
        /\ Len(LifetimeLog(t)) = Len(runs[t].log0) + Len(ToolCalls(t))

\* the line the prompt is to show for a tool-call record: its result cut to
\* the first 200 characters, then the ellipsis
ShownCall(rec) ==
    <<"-", " ">> \o Str(rec.tool) \o <<":", " ">>
      \o (IF Len(rec.result) <= 200 THEN rec.result ELSE SubSeq(rec.result, 1, 200))
      \o <<".", ".", ".">>

\* C15: with n records in tool_calls, the tool section of the prompt a
\* DECIDING step builds is empty when n = 0 and else is the header "Recent
\* Tool Calls:" followed by one line for each of the last min(5, n) records,
\* oldest first, the result cut to 200 characters and followed by "...". The
\* last line is the record the preceding CALLING_TOOL step appended.
C15_RecentToolCalls ==
    \A t \in Threads : (lastOp = "decide" /\ runs[t].nllm >= 1) =>
        LET tc    == ToolCalls(t)
            n     == Len(tc)
            m     == IF n < 5 THEN n ELSE 5
            lines == SplitLines(runs[t].tool_history)
        IN  /\ n = 0 => runs[t].tool_history = <<>>
            /\ n >= 1 <=> Contains(runs[t].tool_history,
                                   SubSeq(L_RecentCalls, 2, Len(L_RecentCalls) - 1))
            /\ n >= 1 =>
                  /\ Len(lines) = m + 2
                  /\ lines[1] = <<>>
                  /\ lines[2] = SubSeq(L_RecentCalls, 2, Len(L_RecentCalls) - 1)
                  /\ \A i \in 1..m : lines[2 + i] = ShownCall(tc[n - m + i])

\* C15 happens: a prompt is built after six tool calls, the first of which
\* it no longer lists, the last of which has a result of more than 200
\* characters
C15_Witness ==
    \E t \in Threads :
        /\ lastOp = "decide" /\ Len(ToolCalls(t)) = 6
        /\ Len(ToolCalls(t)[6].result) > 200
        /\ ToolCalls(t)[1].tool = PyStr(N_ghost)
        /\ ~Contains(runs[t].tool_history, N_ghost)
        /\ Len(SplitLines(runs[t].tool_history)) = 7

\* thread t takes a CALLING_TOOL step
CallToolStep(t) ==
    /\ Running(t) /\ runs[t].node = "call_tool"
    /\ Len(runs'[t].stepped) = Len(runs[t].stepped) + 1

\* the decision of the last DECIDING step of thread t is one the loop takes
\* for an answer
LastDecidedAnswer(t) ==
    /\ runs[t].resp.kind = "mapping"
    /\ Has(runs[t].resp.d, "action")
    /\ runs[t].resp.d["action"] # PyStr(L_tool)

\* C16: every CALLING_TOOL step is followed by DECIDING, whatever the tool
\* did; DONE is entered only after a DECIDING step whose decision was an
\* answer, so a run whose every decision is a tool call is never DONE.
C16_LoopShape ==
    [][\A t \in Threads :
          /\ CallToolStep(t) =>
                /\ runs'[t].pc = "running" /\ runs'[t].node = "decide"
                /\ runs'[t].outcome.kind = "none"
          /\ (~Done(t) /\ runs'[t].pc = "running" /\ runs'[t].node = "none") =>
                /\ LastDecidedAnswer(t)
                /\ runs[t].node = "provide_answer"]_vars

\* the parsed block is no complete decision: it is no mapping, or its action
\* is "tool" and it has no tool_name, or "answer" and it has no final_answer
Partial(resp) ==
    \/ resp.kind = "not_mapping"
    \/ /\ resp.kind = "mapping" /\ Has(resp.d, "action")
       /\ \/ resp.d["action"] = PyStr(L_tool) /\ ~Has(resp.d, "tool_name")
          \/ resp.d["action"] = PyStr(L_answer) /\ ~Has(resp.d, "final_answer")

\* C17: a DECIDING step whose parsed block is no complete decision fails with
\* a DecisionParseError: the run does not go on to CALLING_TOOL or DONE, no
\* tool is invoked and no final answer is produced.
C17_PartialDecisionRejected ==
    [][\A t \in Threads : (DecideStep(t) /\ Partial(runs'[t].resp)) =>
          /\ runs'[t].outcome.kind = "raised"
          /\ runs'[t].outcome.exc = "DecisionParseError"
          /\ runs'[t].pc = "idle"
          /\ runs'[t].ninvoked = runs[t].ninvoked
          /\ ~Has(runs'[t].shared, "final_answer")]_vars

\* C18: a CALLING_TOOL step for a registered tool calls the tool function
\* once: with the decision's tool_args as keywords when it is a mapping (the
\* empty mapping when the decision has no tool_args), else as the one
\* positional argument. It appends one record, of the tool name and those
\* arguments, and when the call returns, of str() of the value returned.
C18_ToolInvokedOnce ==
    [][\A t \in Threads : (AtCallTool(t) /\ Registered(t)) =>
          LET d    == Decision(t)
              fn   == agents[runs[t].agent].tool_registry[d["tool_name"].v].function
              args == IF Has(d, "tool_args") THEN d["tool_args"] ELSE PyDict(<<"{", "}">>)
              call == IF args.t = "dict" THEN CallKeywords(fn, args)
                      ELSE CallPositional(fn, args)
          IN  /\ runs'[t].ninvoked = runs[t].ninvoked + 1
              /\ AppendedOne(t)
              /\ NewRecord(t).tool = d["tool_name"]
              /\ NewRecord(t).args = args
              /\ call.ok => NewRecord(t).result = call.val.v]_vars

\* C18 happens: add(7), called with 7 as its one argument, returned 7
C18_Witness ==
    \E t \in Threads :
        /\ lastOp = "call_tool" /\ Running(t) /\ runs[t].ninvoked >= 1
        /\ ToolCalls(t)[Len(ToolCalls(t))]
             = [tool |-> PyStr(N_add), args |-> ArgsScalar, result |-> <<"7">>]

\* C20: when run() has raised, the lifetime tool-call log is what it was
\* before the call, whatever tools the run called, and the history is what it
\* was before the call followed by the query as a USER entry: its last entry
\* has no ASSISTANT entry after it.
C20_FailedRun ==
    \A t \in Threads :
        (runs[t].outcome.kind = "raised" /\ lastOp \in {"decide", "call_tool"}) =>
            LET h == agents[runs[t].agent].conversation_history
            IN  /\ LifetimeLog(t) = runs[t].log0
                /\ h = runs[t].hist0 \o <<Message(L_user, runs[t].shared["query"])>>
                /\ h[Len(h)].role = L_user

\* C20 happens: a run has raised after a tool was called and recorded in it
C20_Witness ==
    \E t \in Threads :
        /\ runs[t].outcome.kind = "raised" /\ lastOp = "decide"
        /\ runs[t].ninvoked >= 1 /\ Len(ToolCalls(t)) >= 1
        /\ LifetimeLog(t) = runs[t].log0

\* two entries of the history next to each other are both USER entries
UserAfterUser(h) ==
    \E i \in 1..(Len(h) - 1) : h[i].role = L_user /\ h[i + 1].role = L_user

\* the history run t shows the model holds the query of run u
ShowsQueryOf(t, u) ==
    Contains(runs[t].shared["conversation_history"],
             FormatMessage(Message(L_user, runs[u].shared["query"])))

\* C19: run() calls on one agent do not exclude each other. While a run is
\* in progress another thread can start its run on the same agent; whenever
\* two runs are in progress together, the history holds a USER entry followed
\* by the other run's USER entry and not by its own ASSISTANT entry, and one
\* of the runs shows the model the other run's unanswered query.
C19_RunsInterleave ==
    \A t, u \in Threads : (t # u /\ runs[t].agent = runs[u].agent /\ Running(t)) =>
        /\ (runs[u].pc = "idle" /\ runsStarted < ConcRuns)
              => ENABLED RunStart(u, ConcQuery(u))
        /\ Running(u) =>
              /\ UserAfterUser(agents[runs[t].agent].conversation_history)
              /\ ShowsQueryOf(t, u) \/ ShowsQueryOf(u, t)

\* C19 happens: both runs are in progress, the history is the two queries,
\* and the second run shows the model the first run's query, which has no
\* answer yet
C19_Witness ==
    /\ Running("t1") /\ Running("t2")
    /\ runs["t1"].outcome.kind = "none" /\ ~Has(runs["t1"].shared, "final_answer")
    /\ agents["A"].conversation_history
         = <<Message(L_user, ConcQuery("t1")), Message(L_user, ConcQuery("t2"))>>
    /\ ShowsQueryOf("t2", "t1")
    /\ ~ShowsQueryOf("t1", "t2")

\* the decisions run t has obtained from the model: its model calls, less the
\* last one when that call or the parse of its response raised
DecisionsObtained(t) ==
    runs[t].nllm -
      (IF /\ runs[t].outcome.kind = "raised"
          /\ runs[t].outcome.at \in {"call_llm", "DecideAction.exec"}
       THEN 1 ELSE 0)

\* C21: in every state of a run, in progress or ended, the decisions obtained
\* from the model are as many as the records of tool_calls or one more; when
\* the run is DONE the model calls are one more than the records: each tool
\* decision of the run gave one record, its one answer decision none.
C21_DecisionsAndRecords ==
    \A t \in Threads : Has(runs[t].shared, "tool_calls") =>
        /\ DecisionsObtained(t) - Len(ToolCalls(t)) \in {0, 1}
        /\ (Done(t) \/ runs[t].outcome.kind = "returned") =>
              /\ runs[t].nllm = Len(ToolCalls(t)) + 1
              /\ Len(runs[t].stepped) = Len(ToolCalls(t))
              /\ \A i \in 1..Len(runs[t].stepped) :
                    runs[t].stepped[i]["action"] = PyStr(L_tool)
              /\ Decision(t)["action"] # PyStr(L_tool)

\* C21 happens: a run is DONE after three model calls and two records
C21_Witness ==
    \E t \in Threads :
        /\ Done(t) /\ runs[t].nllm = 3 /\ Len(ToolCalls(t)) = 2
        /\ Len(runs[t].stepped) = 2

\* the response is a decision mapping with an action other than "tool" and a
\* final_answer field
OtherThanTool(resp) ==
    /\ resp.kind = "mapping"
    /\ Has(resp.d, "action") /\ resp.d["action"] # PyStr(L_tool)
    /\ Has(resp.d, "final_answer")

\* C22: a DECIDING step whose decision has an action that is not the literal
\* "tool", whatever value it is, is routed as an answer: the run goes to
\* ProvideAnswer with that decision's final_answer and invokes no tool, and
\* run() returns that final_answer. A tool is invoked only in a step taken
\* for a decision whose action is "tool".
C22_NotToolIsAnswer ==
    /\ [][\A t \in Threads :
            /\ (DecideStep(t) /\ OtherThanTool(runs'[t].resp)) =>
                  /\ runs'[t].pc = "running" /\ runs'[t].node = "provide_answer"
                  /\ runs'[t].shared["final_answer"] = runs'[t].resp.d["final_answer"]
                  /\ runs'[t].ninvoked = runs[t].ninvoked
            /\ (Running(t) /\ OtherThanTool(runs[t].resp)) =>
                  /\ runs'[t].ninvoked = runs[t].ninvoked
                  /\ runs'[t].outcome.kind = "returned" =>
                        runs'[t].outcome.value = runs[t].resp.d["final_answer"]
            /\ runs'[t].ninvoked > runs[t].ninvoked =>
                  Decision(t)["action"] = PyStr(L_tool)]_vars

====
